---- MODULE Spec2Model ----
(***************************************************************************)
(* Model of xgendoc.py, the documentation-build script of gofem.           *)
(*                                                                         *)
(* Text (file contents, file names, command arguments, pipe data) is a     *)
(* sequence of tokens.  The characters the shell and sed treat specially   *)
(* are tokens of their own: the double quote DQ, the backslash BS and the  *)
(* path separator "/".  Every other token is a run of ordinary characters  *)
(* of the source (a piece of a template, a path segment, a description),   *)
(* none of which holds a quote, a backslash or the text /src/target.       *)
(*                                                                         *)
(* Python tuples are 0-based: pkg[0] and pkg[1] of the source are pkg[1]   *)
(* and pkg[2] here.                                                        *)
(***************************************************************************)
EXTENDS Integers, Sequences, FiniteSets, TLC

VARIABLES
    registry,   \* the list iterated by line 95 (pkgs, or the list a scenario puts in its place)
    licen,      \* line 52: the text of the LICENSE file
    files,      \* the file system: file name -> content
    pc,         \* the statement of the script that runs next
    i,          \* line 95: how many entries the loop has taken
    fn,         \* line 97: the current per-package file name
    console,    \* what the script has printed
    command,    \* Cmd's parameter: the command of the latest call
    verbose,    \* Cmd's parameter
    debug,      \* Cmd's parameter
    cmdpc,      \* position inside Cmd
    spr,        \* line 14: the process Cmd holds
    out,        \* line 15: what stdout.read() has read so far
    err,        \* line 16: what stderr.read() has read so far
    procs,      \* the spawned processes that are not yet reaped: id -> process
    nspawn,     \* how many processes have been spawned
    effects     \* history: the commands executed by the processes, in execution order

vars == <<registry, licen, files, pc, i, fn, console, command, verbose, debug,
          cmdpc, spr, out, err, procs, nspawn, effects>>

(***************************************************************************)
(* Bounds of the model                                                     *)
(***************************************************************************)
MaxPkgs == 2          \* longest registry of a run
MaxLicChunks == 2     \* longest LICENSE text, in chunks
MaxToolLinks == 1     \* most source links in the output of the documentation tool
PipeCap == 2          \* capacity of an OS pipe, in bytes
MaxOps == 4           \* longest script of the child of a single Cmd call

(***************************************************************************)
(* Tokens                                                                  *)
(***************************************************************************)
DQ == "\""
BS == "\\"
SL == "/"
NL == "\n"
WS == " "

RECURSIVE Flat(_)
Flat(ss) == IF ss = <<>> THEN <<>> ELSE Head(ss) \o Flat(Tail(ss))

\* all sequences of at most n elements of S
SeqsUpTo(S, n) == UNION {[1..k -> S] : k \in 0..n}

(***************************************************************************)
(* Python string operations used by the script                             *)
(***************************************************************************)
\* str.replace(old, new) for a one-character old
Replace(s, old, new) == [k \in 1..Len(s) |-> IF s[k] = old THEN new ELSE s[k]]

IsSpace(c) == c \in {WS, NL}

RECURSIVE LStrip(_)
LStrip(s) == IF s # <<>> /\ IsSpace(Head(s)) THEN LStrip(Tail(s)) ELSE s

RECURSIVE RStrip(_)
RStrip(s) ==
    IF s # <<>> /\ IsSpace(s[Len(s)]) THEN RStrip(SubSeq(s, 1, Len(s) - 1)) ELSE s

\* str.strip(): leading and trailing whitespace removed
Strip(s) == RStrip(LStrip(s))

(***************************************************************************)
(* Lines 22-52: the data of the script                                     *)
(***************************************************************************)
pkgs == <<
    << <<"ana">>,                    "analytical solutions" >>,
    << <<"shp">>,                    "shape (interpolation) structures and quadrature points" >>,
    << <<"mdl", SL, "generic">>,     "generic models (placeholder for parameters set)" >>,
    << <<"mdl", SL, "solid">>,       "models for solids" >>,
    << <<"mdl", SL, "fluid">>,       "models for fluids (liquid / gas)" >>,
    << <<"mdl", SL, "conduct">>,     "models for liquid conductivity within porous media" >>,
    << <<"mdl", SL, "retention">>,   "models for liquid retention within porous media" >>,
    << <<"mdl", SL, "diffusion">>,   "models for diffusion applications" >>,
    << <<"mdl", SL, "thermomech">>,  "models for thermo-mechanical applications" >>,
    << <<"mdl", SL, "porous">>,      "models for porous media (TPM-based)" >>,
    << <<"inp">>,                    "input data (.sim = simulation, .mat = materials, .msh = meshes)" >>,
    << <<"ele">>,                    "finite elements" >>,
    << <<"ele", SL, "solid">>,       "elements for solid mechanics" >>,
    << <<"ele", SL, "seepage">>,     "elements for seepage problems (with liquid and/or gases)" >>,
    << <<"ele", SL, "diffusion">>,   "elements for diffusion(-like) problems" >>,
    << <<"ele", SL, "thermomech">>,  "elements for thermo-mechanical applications" >>,
    << <<"ele", SL, "porous">>,      "elements for porous media simulations (TPM)" >>,
    << <<"fem">>,                    "finite element method (main, domain, solver, ...)" >>,
    << <<"tests">>,                  "(unit) tests of complete simulations" >>,
    << <<"tests", SL, "solid">>,     "tests of solid mechanics applications" >>,
    << <<"tests", SL, "seepage">>,   "tests of seepage problems" >>,
    << <<"tests", SL, "diffusion">>, "tests of diffusion problems" >>,
    << <<"tests", SL, "thermomech">>,"tests of thermo-mechanical applications" >>,
    << <<"tests", SL, "porous">>,    "tests of porous media simulations" >>,
    << <<"out">>,                    "output routines (post-processing and plotting)" >>
>>

odir == <<"doc/">>
idxfn == odir \o <<"index.html">>

(***************************************************************************)
(* Lines 54-89: the page templates.  In the source every quote of a        *)
(* template is written \\" inside a Python string, which is the two        *)
(* characters backslash, quote: BS, DQ here.                               *)
(***************************************************************************)
header(title) ==
    <<"<html>\n<head>\n<meta http-equiv=", BS, DQ, "Content-Type", BS, DQ,
      " content=", BS, DQ, "text/html; charset=utf-8", BS, DQ,
      ">\n<meta name=", BS, DQ, "viewport", BS, DQ,
      " content=", BS, DQ, "width=device-width, initial-scale=1", BS, DQ,
      ">\n<meta name=", BS, DQ, "theme-color", BS, DQ,
      " content=", BS, DQ, "#375EAB", BS, DQ,
      ">\n<title>">>
    \o title \o
    <<"</title>\n<link type=", BS, DQ, "text/css", BS, DQ,
      " rel=", BS, DQ, "stylesheet", BS, DQ,
      " href=", BS, DQ, "static/style.css", BS, DQ,
      ">\n<script type=", BS, DQ, "text/javascript", BS, DQ,
      " src=", BS, DQ, "static/godocs.js", BS, DQ,
      "></script>\n<style type=", BS, DQ, "text/css", BS, DQ,
      "></style>\n</head>\n<body>\n<div id=", BS, DQ, "page", BS, DQ,
      " class=", BS, "wide", BS, DQ,
      ">\n<div class=", BS, DQ, "container", BS, DQ, ">\n">>

footer ==
    <<"\n<div id=", BS, DQ, "footer", BS, DQ,
      ">\n<br /><br />\n<hr>\n<pre class=", BS, DQ, "copyright", BS, DQ, ">\n">>
    \o licen \o
    <<"</pre><!-- copyright -->\n</div><!-- footer -->\n\n</div><!-- container -->\n</div><!-- page -->\n</body>\n</html>">>

pkgheader(pkg) ==
    header(<<"Gofem &ndash; package ">> \o pkg[1])
    \o <<"<h1>Gofem &ndash; <b>">> \o pkg[1] \o <<"</b> &ndash; ", pkg[2], "</h1>">>

\* pkgitem with the link made from the path as it is
pkgitemPathLink(pkg) ==
    <<"<dd><a href=", BS, DQ, "xx">> \o pkg[1] \o <<".html", BS, DQ, "><b>">>
    \o pkg[1] \o <<"</b>: ", pkg[2], "</a></dd>">>

pkgitem(pkg) ==
    LET fnk == Replace(pkg[1], SL, "-")
    IN  <<"<dd><a href=", BS, DQ, "xx">> \o fnk \o <<".html", BS, DQ, "><b>">>
        \o pkg[1] \o <<"</b>: ", pkg[2], "</a></dd>">>

\* FileName with a hyphen between xx and the flattened path
FileNameHyphen(pkg) ==
    odir \o <<"xx", "-">> \o Replace(pkg[1], SL, "-") \o <<".html">>

\* lines 96-97: the name of the per-package file
FileName(pkg) ==
    LET fnk == Replace(pkg[1], SL, "-")
    IN  odir \o <<"xx">> \o fnk \o <<".html">>

(***************************************************************************)
(* The commands handed to Cmd.  A command line of the source is kept as    *)
(* its parts: the program, the text spliced between the two literal double *)
(* quotes (echo) or the s@pattern@replacement@g expression (sed), the      *)
(* redirection and the file.                                               *)
(***************************************************************************)
\* 'echo "' + text + '" > ' + file    and    'echo "' + text + '" >> ' + file
EchoCmd(text, op, file) ==
    [prog |-> "echo", text |-> text, repl |-> <<>>, op |-> op, file |-> file]

\* line 100: 'godoc -html github.com/cpmech/gofem/' + pkg[0] + ' >> ' + fn
GodocCmd(pkg, file) ==
    [prog |-> "godoc", text |-> <<"github.com/cpmech/gofem", SL>> \o pkg[1],
     repl |-> <<>>, op |-> ">>", file |-> file]

\* line 105: the placeholder sed looks for
Placeholder == <<SL, "src", SL, "target">>

\* SedRepl with the placeholder left in front of the path
SedReplKeepsTarget(pkg) ==
    <<"https://github.com/cpmech/gofem/blob/master">> \o Placeholder \o <<SL>> \o pkg[1]

\* line 105: the replacement text of the entry
SedRepl(pkg) == <<"https://github.com/cpmech/gofem/blob/master", SL>> \o pkg[1]

\* line 105: "sed -i -e 's@/src/target@https://.../master/" + pkg[0] + "@g' " + fn
SedCmd(pkg, file) ==
    [prog |-> "sed", text |-> Placeholder, repl |-> SedRepl(pkg), op |-> "-i",
     file |-> file]

\* the command of a single Cmd call on an arbitrary child: text is the child's script
ChildCmd(script) ==
    [prog |-> "child", text |-> script, repl |-> <<>>, op |-> "", file |-> <<>>]

(***************************************************************************)
(* What the commands do when /bin/sh runs them                             *)
(***************************************************************************)
\* sh at position k of s, the text between the two literal quotes of the command
\* line.  st.q: inside double quotes; st.skip: s[k] was taken by the backslash
\* before it; st.esc: the last character is a backslash, which takes the
\* literal closing quote.
ShStep(s, k, st) ==
    IF st.skip THEN [st |-> [st EXCEPT !.skip = FALSE], text |-> <<>>]
    ELSE IF s[k] = DQ THEN [st |-> [st EXCEPT !.q = ~st.q], text |-> <<>>]
    ELSE IF s[k] = BS
    THEN IF k = Len(s) THEN [st |-> [st EXCEPT !.esc = TRUE], text |-> <<>>]
         ELSE IF st.q /\ s[k + 1] \notin {DQ, BS}
         THEN [st |-> st, text |-> <<BS>>]      \* inside quotes \ stays before an ordinary character
         ELSE [st |-> [st EXCEPT !.skip = TRUE], text |-> <<s[k + 1]>>]
    ELSE [st |-> st, text |-> <<s[k]>>]

\* the output of two consecutive stretches
Join(a, b) == [st |-> b.st, text |-> a.text \o b.text]

\* sh over s[lo..hi], started in state st: the first half, then the second half
\* from the state the first one ends in
RECURSIVE ShScan(_, _, _, _)
ShScan(s, lo, hi, st) ==
    IF lo = hi THEN ShStep(s, lo, st)
    ELSE LET mid == (lo + hi) \div 2
         IN  CHOOSE r \in UNION {{Join(a, b) : b \in {ShScan(s, mid + 1, hi, a.st)}} :
                                  a \in {ShScan(s, lo, mid, st)}} : TRUE

\* The argument echo receives for  echo "<text>" > file.  After the text come
\* the literal closing quote and the redirection: when the text leaves sh
\* outside quotes, or ends inside them with a backslash, that quote opens a
\* string that never ends, the command line is a syntax error (ok is FALSE) and
\* sh runs nothing.
DQuote(text) ==
    LET st0 == [q |-> TRUE, skip |-> FALSE, esc |-> FALSE]
        r == IF text = <<>> THEN [st |-> st0, text |-> <<>>]
             ELSE ShScan(text, 1, Len(text), st0)
    IN  IF r.st.esc
        THEN [ok |-> ~r.st.q, text |-> r.text \o <<DQ>>]
        ELSE [ok |-> r.st.q, text |-> r.text]

\* sed at position k of s; skip: how many characters of a match are still to pass
SedStep(s, k, skip, pat, repl) ==
    IF skip > 0 THEN [st |-> skip - 1, text |-> <<>>]
    ELSE IF k + Len(pat) - 1 <= Len(s) /\ SubSeq(s, k, k + Len(pat) - 1) = pat
    THEN [st |-> Len(pat) - 1, text |-> repl]
    ELSE [st |-> 0, text |-> <<s[k]>>]

RECURSIVE SedScan(_, _, _, _, _, _)
SedScan(s, lo, hi, skip, pat, repl) ==
    IF lo = hi THEN SedStep(s, lo, skip, pat, repl)
    ELSE LET mid == (lo + hi) \div 2
         IN  CHOOSE r \in UNION {{Join(a, b) :
                                     b \in {SedScan(s, mid + 1, hi, a.st, pat, repl)}} :
                                  a \in {SedScan(s, lo, mid, skip, pat, repl)}} : TRUE

\* sed s@pat@repl@g : every occurrence, left to right, the output not rescanned
SedSubst(s, pat, repl) ==
    IF s = <<>> THEN s ELSE SedScan(s, 1, Len(s), 0, pat, repl).text

\* the shell's  > file  and  >> file
Redirect(fs, op, file, text) ==
    IF op = ">>" /\ file \in DOMAIN fs
    THEN [fs EXCEPT ![file] = @ \o text]
    ELSE (file :> text) @@ fs

\* the file system after the command has run
RunCommand(fs, cmd, toolOut) ==
    CASE cmd.prog = "echo" ->
            LET arg == DQuote(cmd.text)
            IN  IF arg.ok THEN Redirect(fs, cmd.op, cmd.file, arg.text \o <<NL>>) ELSE fs
      [] cmd.prog = "godoc" -> Redirect(fs, cmd.op, cmd.file, toolOut)
      [] cmd.prog = "sed" ->
            IF cmd.file \in DOMAIN fs
            THEN [fs EXCEPT ![cmd.file] = SedSubst(@, cmd.text, cmd.repl)]
            ELSE fs
      [] OTHER -> fs

\* whether sh or the program reports an error
Fails(fs, cmd) ==
    CASE cmd.prog = "echo" -> ~DQuote(cmd.text).ok
      [] cmd.prog = "sed" -> cmd.file \notin DOMAIN fs
      [] OTHER -> FALSE

(***************************************************************************)
(* The environment: LICENSE texts, outputs of the documentation tool,      *)
(* scripts of child processes                                              *)
(***************************************************************************)
LicChunks == {<<"t">>, <<DQ>>, Placeholder}
Licenses == {Flat(cs) : cs \in SeqsUpTo(LicChunks, MaxLicChunks)}

\* The tool prints nothing (it failed), or a page g with source links in it, each
\* starting with the placeholder.
RECURSIVE ToolPage(_)
ToolPage(n) == IF n = 0 THEN <<"g">> ELSE ToolPage(n - 1) \o Placeholder \o <<"g">>
ToolOutputs == {<<>>} \cup {ToolPage(n) : n \in 0..MaxToolLinks}

\* what a child does to its two pipes, in order
WriteOut(b) == <<"out", b>>
WriteErr(b) == <<"err", b>>
CloseOut == <<"closeOut", "">>
Ops == {WriteOut("x"), WriteErr("x"), WriteErr(WS), CloseOut}

\* a child never writes to a stream it has closed
WellFormed(script) ==
    \A a, b \in 1..Len(script) :
        (a < b /\ script[a] = CloseOut) => script[b][1] = "err"
Scripts == {s \in SeqsUpTo(Ops, MaxOps) : WellFormed(s)}

\* the diagnostic of a failed command: a message and its newline
Diagnostic == <<WriteErr("x"), WriteErr(NL)>>

\* the tool writes any amount to stderr, up to one byte more than a pipe holds
ToolErrs == {[k \in 1..n |-> WriteErr("x")] : n \in 0..(PipeCap + 1)}

\* the registries of the runs: windows of pkgs, the empty one among them
Starts == {1, 2}
Registries == {SubSeq(pkgs, s, s + n - 1) : s \in Starts, n \in 0..MaxPkgs}

StreamOf(script, stream) ==
    LET sel == SelectSeq(script, LAMBDA op : op[1] = stream)
    IN  [k \in 1..Len(sel) |-> sel[k][2]]

(***************************************************************************)
(* Lines 9-20: Cmd, and the child process it spawns                        *)
(***************************************************************************)
\* line 14: the process Popen starts, both its streams piped to the parent
NewProc(cmd) ==
    [cmd |-> cmd, started |-> FALSE, alive |-> TRUE, script |-> <<>>,
     outPipe |-> <<>>, errPipe |-> <<>>, outOpen |-> TRUE, errOpen |-> TRUE]

\* a read that returns as soon as the pipe is empty
EndOfFileNoWait(pipe, open) == pipe = <<>>

\* lines 15, 16: read() returns only at end of file: the pipe drained and the
\* write end closed by every process that held it
EndOfFile(pipe, open) == pipe = <<>> /\ ~open

\* lines 9-14: the call.  With debug set, line 12 prints the name cmd, which
\* nothing defines: NameError, before Popen.
Call(cmd) ==
    /\ cmdpc \in {"idle", "returned"}
    /\ command' = cmd
    /\ IF debug
       THEN /\ console' = console \o <<"==================================================">>
            /\ cmdpc' = "NameError"
            /\ UNCHANGED <<spr, out, err, procs, nspawn>>
       ELSE /\ nspawn' = nspawn + 1
            /\ procs' = (nspawn + 1 :> NewProc(cmd)) @@ procs
            /\ spr' = nspawn + 1
            /\ cmdpc' = "readOut"
            /\ out' = <<>>
            /\ err' = <<>>
            /\ UNCHANGED console

\* line 15: out = spr.stdout.read()
ReadOut ==
    /\ cmdpc = "readOut"
    /\ IF procs[spr].outPipe # <<>>
       THEN /\ out' = out \o procs[spr].outPipe
            /\ procs' = [procs EXCEPT ![spr].outPipe = <<>>]
            /\ UNCHANGED cmdpc
       ELSE /\ EndOfFile(procs[spr].outPipe, procs[spr].outOpen)
            /\ cmdpc' = "readErr"
            /\ UNCHANGED <<out, procs>>
    /\ UNCHANGED <<registry, licen, files, pc, i, fn, console, command, verbose,
                   debug, spr, err, nspawn, effects>>

\* lines 16-20: err = spr.stderr.read().strip(), the verbose prints, the return
ReadErr ==
    /\ cmdpc = "readErr"
    /\ IF procs[spr].errPipe # <<>>
       THEN /\ err' = err \o procs[spr].errPipe
            /\ procs' = [procs EXCEPT ![spr].errPipe = <<>>]
            /\ UNCHANGED <<cmdpc, console>>
       ELSE /\ EndOfFile(procs[spr].errPipe, procs[spr].errOpen)
            /\ err' = Strip(err)
            /\ console' = IF verbose THEN console \o <<out, Strip(err)>> ELSE console
            /\ cmdpc' = "returned"
            /\ procs' = IF procs[spr].alive THEN procs
                        ELSE [p \in DOMAIN procs \ {spr} |-> procs[p]]
    /\ UNCHANGED <<registry, licen, files, pc, i, fn, command, verbose, debug, spr,
                   out, nspawn, effects>>

\* The child runs its command: the file it writes, and what it will write to
\* its pipes.  sh either stays the parent of the tool, holding stdout open until
\* the tool exits, or replaces itself by the tool, whose stdout is the file.
ChildExec(p) ==
    /\ p \in DOMAIN procs
    /\ procs[p].alive /\ ~procs[p].started
    /\ LET cmd == procs[p].cmd IN
       \E toolOut \in ToolOutputs, toolErr \in ToolErrs, exec \in BOOLEAN :
          /\ cmd.prog # "godoc" => (toolOut = <<>> /\ toolErr = <<>> /\ ~exec)
          /\ files' = RunCommand(files, cmd, toolOut)
          /\ procs' = [procs EXCEPT
                ![p].started = TRUE,
                ![p].script =
                    CASE cmd.prog = "child" -> cmd.text
                      [] cmd.prog = "godoc" ->
                            (IF exec THEN <<CloseOut>> ELSE <<>>) \o toolErr
                      [] OTHER -> IF Fails(files, cmd) THEN Diagnostic ELSE <<>>]
          /\ effects' = Append(effects, <<cmd.prog, cmd.op, cmd.file>>)
    /\ UNCHANGED <<registry, licen, pc, i, fn, console, command, verbose, debug,
                   cmdpc, spr, out, err, nspawn>>

\* The child's next write or close.  A write to a full pipe blocks.
ChildStep(p) ==
    /\ p \in DOMAIN procs
    /\ procs[p].alive /\ procs[p].started /\ procs[p].script # <<>>
    /\ LET op == Head(procs[p].script) IN
       CASE op[1] = "out" ->
                /\ Len(procs[p].outPipe) < PipeCap
                /\ procs' = [procs EXCEPT ![p].outPipe = Append(@, op[2]),
                                          ![p].script = Tail(@)]
         [] op[1] = "err" ->
                /\ Len(procs[p].errPipe) < PipeCap
                /\ procs' = [procs EXCEPT ![p].errPipe = Append(@, op[2]),
                                          ![p].script = Tail(@)]
         [] OTHER ->
                procs' = [procs EXCEPT ![p].outOpen = FALSE, ![p].script = Tail(@)]
    /\ UNCHANGED <<registry, licen, files, pc, i, fn, console, command, verbose,
                   debug, cmdpc, spr, out, err, nspawn, effects>>

\* The child exits: the write ends of both pipes close.
ChildExit(p) ==
    /\ p \in DOMAIN procs
    /\ procs[p].alive /\ procs[p].started /\ procs[p].script = <<>>
    /\ procs' = [procs EXCEPT ![p].alive = FALSE, ![p].outOpen = FALSE,
                              ![p].errOpen = FALSE]
    /\ UNCHANGED <<registry, licen, files, pc, i, fn, console, command, verbose,
                   debug, cmdpc, spr, out, err, nspawn, effects>>

(***************************************************************************)
(* Lines 91-108: the run                                                   *)
(***************************************************************************)
\* the statement after each Cmd statement of the script
Succ(l) ==
    CASE l = "L91" -> "L92"
      [] l = "L92" -> "L93"
      [] l = "L93" -> "L95"
      [] l = "L99" -> "L100"
      [] l = "L100" -> "L101"
      [] l = "L101" -> "L102"
      [] l = "L102" -> "L105"
      [] l = "L105" -> "L95"
      [] l = "L107" -> "L108"
      [] l = "L108" -> "end"

\* the command each Cmd statement of the script builds
CommandAt(l) ==
    CASE l = "L91" -> EchoCmd(header(<<"Gofem &ndash; Documentation">>), ">", idxfn)
      [] l = "L92" -> EchoCmd(<<"<h1>Gofem &ndash; Documentation</h1>">>, ">>", idxfn)
      [] l = "L93" ->
            EchoCmd(<<"<h2 id=", BS, DQ, "pkg-index", BS, DQ, ">Index</h2>\n<div id=",
                      BS, DQ, "manual-nav", BS, DQ, ">\n<dl>">>, ">>", idxfn)
      [] l = "L99" -> EchoCmd(pkgheader(registry[i]), ">", fn)
      [] l = "L100" -> GodocCmd(registry[i], fn)
      [] l = "L101" -> EchoCmd(footer, ">>", fn)
      [] l = "L102" -> EchoCmd(pkgitem(registry[i]), ">>", idxfn)
      [] l = "L105" -> SedCmd(registry[i], fn)
      [] l = "L107" -> EchoCmd(<<"</dl>\n</div><!-- manual-nav -->">>, ">>", idxfn)
      [] l = "L108" -> EchoCmd(footer, ">>", idxfn)

\* a Cmd statement of the script: lines 91-93, 99-102, 105, 107, 108
Statement ==
    /\ pc \in {"L91", "L92", "L93", "L99", "L100", "L101", "L102", "L105", "L107", "L108"}
    /\ Call(CommandAt(pc))
    /\ pc' = Succ(pc)
    /\ UNCHANGED <<registry, licen, files, i, fn, verbose, debug, effects>>

\* lines 95-98: the loop takes the next entry, or ends
ForPkg ==
    /\ pc = "L95"
    /\ cmdpc \in {"idle", "returned"}
    /\ IF i < Len(registry)
       THEN /\ i' = i + 1
            /\ fn' = FileName(registry[i + 1])
            /\ console' = Append(console, FileName(registry[i + 1]))
            /\ pc' = "L99"
       ELSE /\ pc' = "L107"
            /\ UNCHANGED <<i, fn, console>>
    /\ UNCHANGED <<registry, licen, files, command, verbose, debug, cmdpc, spr, out,
                   err, procs, nspawn, effects>>

\* one call of Cmd on an arbitrary child, with any flags
CallChild ==
    /\ pc = "Cmd"
    /\ \E script \in Scripts : Call(ChildCmd(script))
    /\ pc' = "end"
    /\ UNCHANGED <<registry, licen, files, i, fn, verbose, debug, effects>>

NoCmd == ChildCmd(<<>>)

\* a run of the script
Init ==
    /\ registry \in Registries
    /\ licen \in Licenses
    /\ files = <<>>
    /\ pc = "L91"
    /\ i = 0
    /\ fn = <<>>
    /\ console = <<>>
    /\ command = NoCmd
    /\ verbose = FALSE
    /\ debug = FALSE
    /\ cmdpc = "idle"
    /\ spr = 0
    /\ out = <<>>
    /\ err = <<>>
    /\ procs = <<>>
    /\ nspawn = 0
    /\ effects = <<>>

Children == \E p \in 1..nspawn : ChildExec(p) \/ ChildStep(p) \/ ChildExit(p)

Next == Statement \/ ForPkg \/ ReadOut \/ ReadErr \/ Children

Spec == Init /\ [][Next]_vars

\* a single call of Cmd
InitCmd ==
    /\ registry = <<>>
    /\ licen = <<>>
    /\ files = <<>>
    /\ pc = "Cmd"
    /\ i = 0
    /\ fn = <<>>
    /\ console = <<>>
    /\ command = NoCmd
    /\ verbose \in BOOLEAN
    /\ debug \in BOOLEAN
    /\ cmdpc = "idle"
    /\ spr = 0
    /\ out = <<>>
    /\ err = <<>>
    /\ procs = <<>>
    /\ nspawn = 0
    /\ effects = <<>>

NextCmd == CallChild \/ ReadOut \/ ReadErr \/ Children

SpecCmd == InitCmd /\ [][NextCmd]_vars

Done == pc = "end" /\ cmdpc = "returned"

(***************************************************************************)
(* Properties                                                              *)
(***************************************************************************)
\* the positions at which pat occurs in s
Occ(s, pat) ==
    {k \in 1..(Len(s) - Len(pat) + 1) : SubSeq(s, k, k + Len(pat) - 1) = pat}

StartsWith(s, t) == Len(t) <= Len(s) /\ SubSeq(s, 1, Len(t)) = t

EndsWith(s, t) == Len(t) <= Len(s) /\ SubSeq(s, Len(s) - Len(t) + 1, Len(s)) = t

\* the HTML a template stands for: each \" of it is a quote
Html(s) ==
    LET marked == [k \in 1..Len(s) |->
                      <<s[k], ~(s[k] = BS /\ k < Len(s) /\ s[k + 1] = DQ)>>]
        kept == SelectSeq(marked, LAMBDA m : m[2])
    IN  [k \in 1..Len(kept) |-> kept[k][1]]

\* doc/xx<flatName>.html, flatName the path with - for /
DocFile(e) == <<"doc/", "xx">> \o Replace(e[1], SL, "-") \o <<".html">>

\* the header block of the page of entry e
HeaderBlock(e) == Html(header(<<"Gofem &ndash; package ">> \o e[1]))

\* the fixed parts of the footer block, before and after the license text
FooterHead ==
    <<"\n<div id=", DQ, "footer", DQ, ">\n<br /><br />\n<hr>\n<pre class=", DQ,
      "copyright", DQ, ">\n">>
FooterTail ==
    <<"</pre><!-- copyright -->\n</div><!-- footer -->\n\n</div><!-- container -->\n</div><!-- page -->\n</body>\n</html>">>

\* the footer with the LICENSE text in it as loaded
FooterBlock == FooterHead \o licen \o FooterTail

\* c holds one footer block, whatever text stands in it for the license
OneFooter(c) ==
    /\ Cardinality(Occ(c, FooterHead)) = 1
    /\ Cardinality(Occ(c, FooterTail)) = 1
    /\ \A h \in Occ(c, FooterHead), t \in Occ(c, FooterTail) : h < t

\* the index page up to the list, and the end of the list
IndexOpening ==
    Html(header(<<"Gofem &ndash; Documentation">>))
    \o <<NL, "<h1>Gofem &ndash; Documentation</h1>", NL,
         "<h2 id=", DQ, "pkg-index", DQ, ">Index</h2>\n<div id=", DQ, "manual-nav", DQ,
         ">\n<dl>", NL>>
IndexClosing == <<"</dl>\n</div><!-- manual-nav -->", NL>>

\* the index-item line of entry e, linking to xx<flatName>.html
ItemLine(e) ==
    <<"<dd><a href=", DQ, "xx">> \o Replace(e[1], SL, "-") \o <<".html", DQ, "><b>">>
    \o e[1] \o <<"</b>: ", e[2], "</a></dd>", NL>>

\* the commands of a run over reg, in the order of the script
StepsOf(e) ==
    << <<"echo", ">", DocFile(e)>>, <<"godoc", ">>", DocFile(e)>>,
       <<"echo", ">>", DocFile(e)>>, <<"echo", ">>", idxfn>>, <<"sed", "-i", DocFile(e)>> >>
StepsOfRun(reg) ==
    << <<"echo", ">", idxfn>>, <<"echo", ">>", idxfn>>, <<"echo", ">>", idxfn>> >>
    \o Flat([j \in 1..Len(reg) |-> StepsOf(reg[j])])
    \o << <<"echo", ">>", idxfn>>, <<"echo", ">>", idxfn>> >>

\* C1: after a complete run every entry's file doc/xx<flatName>.html exists and
\* holds the header block exactly once and the footer block exactly once, the
\* header before the footer.
C1_OneHeaderOneFooter ==
    Done =>
        \A j \in 1..Len(registry) :
            /\ DocFile(registry[j]) \in DOMAIN files
            /\ LET c == files[DocFile(registry[j])]
                   H == Occ(c, HeaderBlock(registry[j]))
               IN  /\ Cardinality(H) = 1
                   /\ OneFooter(c)
                   /\ \A h \in H, g \in Occ(c, FooterHead) : h < g

\* C2 (result): after a complete run the index holds exactly one index-item
\* line per entry, in registry order, each linking to the file generated for
\* its entry; the index exists from the first command on.
C2_Final ==
    /\ effects # <<>> => idxfn \in DOMAIN files
    /\ Done =>
        /\ Cardinality(Occ(files[idxfn], <<"<dd><a href=">>)) = Len(registry)
        /\ StartsWith(files[idxfn],
                      IndexOpening
                      \o Flat([j \in 1..Len(registry) |-> ItemLine(registry[j])])
                      \o IndexClosing)
        /\ \A j \in 1..Len(registry) :
              /\ DocFile(registry[j]) \in DOMAIN files
              /\ StartsWith(files[DocFile(registry[j])], HeaderBlock(registry[j]))

\* C2 (writes): once the index exists every write to it appends
C2_AppendOnly ==
    idxfn \in DOMAIN files =>
        /\ idxfn \in DOMAIN files'
        /\ StartsWith(files'[idxfn], files[idxfn])

\* C2: one index item per entry, in order, linking to the entry's file; the
\* index is created once and only appended to afterwards.
C2_IndexItems == [](C2_Final) /\ [][C2_AppendOnly]_vars

\* C2 witness: a complete run over two entries, one of them with a / in its path
C2_Witness ==
    /\ Done
    /\ Len(registry) = 2
    /\ \E j \in 1..Len(registry) : SL \in {registry[j][1][k] : k \in 1..Len(registry[j][1])}

\* C3: after a complete run every generated file ends with the footer holding
\* the LICENSE text exactly as loaded.
C3_LicenseVerbatim ==
    Done => \A f \in DOMAIN files : EndsWith(files[f], FooterBlock \o <<NL>>)

\* C4: with an empty registry the run leaves the index alone, made of the
\* header, the opening and closing list markup with nothing between, and the
\* footer.
C4_EmptyRegistry ==
    (registry = <<>> /\ Done) =>
        /\ DOMAIN files = {idxfn}
        /\ StartsWith(files[idxfn], IndexOpening \o IndexClosing \o FooterHead)
        /\ EndsWith(files[idxfn], FooterTail \o <<NL>>)
        /\ OneFooter(files[idxfn])

\* the scenario of C5, with f the name of the per-package file
C5Scenario(f) ==
    (registry = << << <<"ana">>, "analytical solutions" >> >> /\ Done) =>
        /\ DOMAIN files \ {idxfn} = {f}
        /\ Cardinality(Occ(files[f], <<">\n<title>", "Gofem &ndash; package ", "ana",
                                       "</title>\n<link type=">>)) = 1
        /\ Cardinality(Occ(files[f], <<"<h1>Gofem &ndash; <b>">>)) = 1
        /\ Cardinality(Occ(files[f], <<"<h1>Gofem &ndash; <b>", "ana", "</b> &ndash; ",
                                       "analytical solutions", "</h1>", NL>>)) = 1
        /\ Cardinality(Occ(files[idxfn], <<"<dd><a href=">>)) = 1
        /\ Cardinality(Occ(files[idxfn],
                           <<"<dd><a href=", DQ, "xx", "ana", ".html", DQ, "><b>", "ana",
                             "</b>: ", "analytical solutions", "</a></dd>", NL>>)) = 1

\* C5 as stated: the per-package file of the scenario is doc/xx-ana.html
C5_Original == C5Scenario(<<"doc/", "xx", "-", "ana", ".html">>)

\* C5 amended: with registry [("ana","analytical solutions")] the run creates
\* exactly one per-package file, doc/xxana.html, with "ana" in its title and one
\* <h1> line with "ana" and "analytical solutions", and the index holds exactly
\* one item, linking to xxana.html, reading "ana: analytical solutions".
C5_Amended == C5Scenario(<<"doc/", "xx", "ana", ".html">>)

\* C5 witness: the scenario has run to its end
C5_Witness == registry = << << <<"ana">>, "analytical solutions" >> >> /\ Done

\* the replacement text of C6
Repl(e) == <<"https://github.com/cpmech/gofem/blob/master", SL>> \o e[1]

\* sed has run on the file of entry e
Substituted(e) == \E n \in 1..Len(effects) : effects[n] = <<"sed", "-i", DocFile(e)>>

\* C6: no entry's replacement text holds the placeholder, and whenever a command
\* of the run has returned, on every file the substitution has run on, running
\* it again changes nothing.
C6_SubstitutionIdempotent ==
    /\ \A k \in 1..Len(pkgs) : Occ(Repl(pkgs[k]), Placeholder) = {}
    /\ \A j \in 1..Len(registry) :
          (cmdpc = "returned" /\ Substituted(registry[j])) =>
              SedSubst(files[DocFile(registry[j])], Placeholder, Repl(registry[j]))
                  = files[DocFile(registry[j])]

\* C6 witness: the substitution has rewritten a link of an entry with a / in its path
C6_Witness ==
    \E j \in 1..Len(registry) :
        /\ Len(registry[j][1]) > 1
        /\ Substituted(registry[j])
        /\ Occ(files[DocFile(registry[j])], Repl(registry[j])) # {}

\* what Cmd has to return for its command
Captured ==
    /\ out = StreamOf(command.text, "out")
    /\ err = Strip(StreamOf(command.text, "err"))

\* C7: a call of Cmd with the default flags returns, with the child's two
\* streams captured: until it has returned, the parent or the child can go on.
C7_CmdReturns ==
    ~debug =>
        /\ cmdpc = "returned" \/ ENABLED NextCmd
        /\ cmdpc = "returned" => Captured

\* C8: whatever the tool does for an entry, the run goes on to its end, every
\* command of every entry run in turn.
C8_RunReachesEnd ==
    /\ Done \/ ENABLED Next
    /\ Done => effects = StepsOfRun(registry)

\* C9: the commands run one after another in the order of the script; a
\* subprocess is started only when every earlier one has exited, its writes done.
C9_Sequential ==
    /\ Len(effects) <= Len(StepsOfRun(registry))
    /\ effects = SubSeq(StepsOfRun(registry), 1, Len(effects))
    /\ \A p \in DOMAIN procs :
          procs[p].alive => (p = spr /\ cmdpc \in {"readOut", "readErr"})
    /\ Len(effects) \in {nspawn - 1, nspawn}
    /\ cmdpc \in {"idle", "returned"} => Len(effects) = nspawn

\* C9 witness: the first command of the second entry is running
C9_Witness ==
    /\ i = 2
    /\ cmdpc = "readOut"
    /\ procs[spr].alive
    /\ Len(effects) = 9

\* C10: with any flags Cmd spawns the command once and returns what it returns
\* with both flags off, never ending in an error.
C10_FlagsObservabilityOnly ==
    /\ cmdpc # "NameError"
    /\ cmdpc = "returned" => (nspawn = 1 /\ Captured)
====
